---- MODULE Spec2Model ----
(***************************************************************************)
(* bevy-snake (src/src/main.rs): the frame loop built in main(), the four  *)
(* Update systems (update, direction_update, snake_update,                 *)
(* on_edible_eaten), the two event channels and the deferred command       *)
(* queue.                                                                  *)
(*                                                                         *)
(* Scheduling.  main() adds the four systems to the Update schedule with   *)
(* four separate add_systems calls and no ordering constraint (no chain,   *)
(* before or after).  The schedule then runs them in an order it is free   *)
(* to choose in every frame; systems with conflicting access never         *)
(* overlap, so a frame is an arbitrary sequence of the four systems, each  *)
(* run once.  Commands (spawn, despawn) are queued and applied when the    *)
(* Update schedule ends.  Events live in a double buffer that is rotated   *)
(* once per frame, before Update.                                          *)
(***************************************************************************)
EXTENDS Integers, Sequences, FiniteSets, TLC

\* ------------------------------------------------------------------ bounds
\* Tick signals sent before the clock input stops completing periods.
MaxTicks == 6
\* Width in bits of usize, the type of Position.x and Position.y.  usize is
\* target dependent; the model takes the narrowest width Rust defines.
UsizeBits == 16
\* Frames in which the player newly presses at least one direction key.
MaxPresses == 2

\* ------------------------------------------------- constants of the program
Width == 10
Height == 10
Period == 500
GenRangeEnd == 10

UsizeModulus == 2 ^ UsizeBits

\* Frame times offered to the clock, in milliseconds: no time, half a period,
\* one period, two periods.
Deltas == {0, 250, 500, 1000}
\* The samples of an inclusive range, gen_range(0..=10).
RngSamples_inclusive == {7, GenRangeEnd}
\* Values of rng.gen_range(0..10) the model draws: the column / row next to
\* the first food item and the last value of the range.
RngSamples == {7, GenRangeEnd - 1}

Directions == {"Left", "Right", "Up", "Down"}
KeyCodes == {"W", "A", "S", "D"}
Systems == {"update", "direction_update", "snake_update", "on_edible_eaten"}

VARIABLES
    parts,          \* Snake.parts, head first: sequence of <<x, y>>
    direction,      \* Snake.direction
    belly,          \* Snake.belly
    apples,         \* the (Edible, Position) entities: set of [id, pos]
    next_entity,    \* the next fresh entity id
    tick_timer,     \* GameState.tick_timer
    tick_events,    \* Events<TickUpdate>
    tick_reader,    \* snake_update's EventReader<TickUpdate>: last_event_count
    eaten_events,   \* Events<EdibleEaten>
    eaten_reader,   \* on_edible_eaten's EventReader<EdibleEaten>
    commands,       \* queued commands, applied when Update ends
    phase,          \* "first", "update" or "post_update"
    frame_ran,      \* the Update systems that have run in this frame
    panicked,       \* the process has panicked
    wrapped,        \* an unsigned operation has wrapped (overflow checks off)
    step_log,       \* observer: the last two completed steps of snake_update
    presses,        \* observer: frames so far with a newly pressed direction key
    steps,          \* observer: iterations of snake_update's loop begun so far
    call            \* a direct call of Direction::mov and its result

vars == <<parts, direction, belly, apples, next_entity, tick_timer, tick_events,
          tick_reader, eaten_events, eaten_reader, commands, phase, frame_ran,
          panicked, wrapped, step_log, presses, steps, call>>

\* ------------------------------------------------------------ Position, mov
Position(x, y) == <<x, y>>

\* mov whose Up arm was copied from the Right arm and kept its x + 1.
MovExact_diagonal_up(d, p) ==
    CASE d = "Left"  -> Position(p[1] - 1, p[2])
      [] d = "Right" -> Position(p[1] + 1, p[2])
      [] d = "Up"    -> Position(p[1] + 1, p[2] + 1)
      [] d = "Down"  -> Position(p[1], p[2] - 1)

\* The operand pair of the one addition or subtraction mov performs, as the
\* mathematical (unbounded) result.
MovExact(d, p) ==
    CASE d = "Left"  -> Position(p[1] - 1, p[2])
      [] d = "Right" -> Position(p[1] + 1, p[2])
      [] d = "Up"    -> Position(p[1], p[2] + 1)
      [] d = "Down"  -> Position(p[1], p[2] - 1)

IsUsize(n) == n >= 0 /\ n < UsizeModulus

MovOverflows(d, p) == LET q == MovExact(d, p) IN ~(IsUsize(q[1]) /\ IsUsize(q[2]))

\* The value mov returns when it returns: usize arithmetic, modulo 2^w.
MovWrapping(d, p) ==
    LET q == MovExact(d, p) IN Position(q[1] % UsizeModulus, q[2] % UsizeModulus)

\* mov with saturating arithmetic: a move off the low edge stays at 0.
mov_saturating(d, p, has_wrapped) ==
    LET q == MovExact(d, p)
        lo(n) == IF n < 0 THEN 0 ELSE IF n >= UsizeModulus THEN UsizeModulus - 1 ELSE n
    IN  {[panic |-> FALSE, pos |-> Position(lo(q[1]), lo(q[2]))]}

\* Direction::mov.  An operation that leaves usize panics in a build with
\* overflow checks and wraps in a build without them; once a wrap has been
\* seen the build is one without checks.
mov(d, p, has_wrapped) ==
    IF MovOverflows(d, p)
    THEN {[panic |-> FALSE, pos |-> MovWrapping(d, p)]}
         \cup (IF has_wrapped THEN {} ELSE {[panic |-> TRUE, pos |-> p]})
    ELSE {[panic |-> FALSE, pos |-> MovWrapping(d, p)]}

\* ------------------------------------------------------------------- Timer
\* Timer::new(Duration::from_millis(500), TimerMode::Repeating)
TimerNew == [elapsed |-> 0, finished |-> FALSE, times_finished_this_tick |-> 0]

\* Timer::tick of a repeating timer: the elapsed time is kept modulo the
\* period and the number of periods completed by this call is recorded.
TimerTick(t, delta) ==
    LET e == t.elapsed + delta IN
    IF e >= Period
    THEN [elapsed |-> e % Period, finished |-> TRUE,
          times_finished_this_tick |-> e \div Period]
    ELSE [elapsed |-> e, finished |-> FALSE, times_finished_this_tick |-> 0]

\* ------------------------------------------------------------------ Events
\* Events<E>: events_a holds the events of the previous frame, events_b those
\* of this frame; the events carry no data, so a buffer is its start id and
\* its length.
EventsNew == [event_count |-> 0, a_start |-> 0, a_len |-> 0, b_start |-> 0, b_len |-> 0]

EventsSend(e) == [e EXCEPT !.b_len = @ + 1, !.event_count = @ + 1]

\* Events::update with a single buffer: every event of the frame before is
\* dropped when the frame begins.
EventsUpdate_single_buffer(e) ==
    [e EXCEPT !.a_start = e.event_count, !.a_len = 0,
              !.b_start = e.event_count, !.b_len = 0]

\* Events::update, run once per frame in First: swap the buffers and clear
\* the new events_b.
EventsUpdate(e) ==
    [e EXCEPT !.a_start = e.b_start, !.a_len = e.b_len,
              !.b_start = e.event_count, !.b_len = 0]

SaturatingSub(a, b) == IF a >= b THEN a - b ELSE 0

\* The number of events EventReader::iter yields to a reader that has seen
\* the events below `last`.
EventsUnread(e, last) ==
    SaturatingSub(e.a_len, SaturatingSub(last, e.a_start))
    + SaturatingSub(e.b_len, SaturatingSub(last, e.b_start))

\* ---------------------------------------------------------------- Commands
CommandsEmpty == [despawn |-> {}, spawn |-> {}]

\* commands.entity(e).despawn() and commands.spawn(..) are queued; the queue
\* is applied when the Update schedule ends.
CommandsApply(a, c) == {e \in a : e.id \notin c.despawn} \cup c.spawn

\* ------------------------------------------------------------- snake_update
RECURSIVE EventsSendN(_, _)
EventsSendN(e, n) == IF n = 0 THEN e ELSE EventsSendN(EventsSend(e), n - 1)

\* push_front that appends the cell at the tail end.
PushFront_at_back(s, x) == Append(s, x)

\* snake.parts.push_front(new_position)
PushFront(s, x) == <<x>> \o s
PopBack(s) == SubSeq(s, 1, Len(s) - 1)
LastTwo(s) == IF Len(s) > 2 THEN SubSeq(s, Len(s) - 1, Len(s)) ELSE s

\* new_position computed from the tail end of the chain.
new_position_from_back(d, ps, has_wrapped) == mov(d, ps[Len(ps)], has_wrapped)

\* let new_position = snake.direction.mov(snake.parts.front().unwrap())
new_position(d, ps, has_wrapped) == mov(d, ps[1], has_wrapped)

\* The food the loop over apple_query matches against the head.
eaten_by(head, a) == {e \in a : e.pos = head}

\* digest with the tail kept whatever the credit is.
digest_never_pops(fed, ps) ==
    IF fed > 0 THEN [belly |-> fed - 1, parts |-> ps]
    ELSE [belly |-> fed, parts |-> ps]

\* digest with the credit left in the belly for the next tick to spend.
digest_keeps_credit(fed, ps) ==
    IF fed > 1 THEN [belly |-> fed - 1, parts |-> ps]
    ELSE IF fed = 1 THEN [belly |-> fed, parts |-> ps]
    ELSE [belly |-> fed, parts |-> PopBack(ps)]

\* digest that spends the credit and drops the tail all the same.
digest_always_pops(fed, ps) ==
    [belly |-> IF fed > 0 THEN fed - 1 ELSE fed, parts |-> PopBack(ps)]

\* if snake.belly > 0 { snake.belly -= 1 } else { snake.parts.pop_back(); }
digest(fed, ps) ==
    IF fed > 0 THEN [belly |-> fed - 1, parts |-> ps]
    ELSE [belly |-> fed, parts |-> PopBack(ps)]

\* The body of `for _ in tick_events.iter()`: one step of the snake.  `s` is
\* what the loop has changed so far, `d` the heading and `a` the food the
\* apple query yields (despawns are still queued, so `a` is the same for
\* every step of one run).  The result is the set of possible outcomes.
Step(s, d, a) ==
    IF s.panicked THEN {s}
    ELSE IF s.parts = <<>>
    THEN {[s EXCEPT !.panicked = TRUE, !.steps = @ + 1]}
    ELSE
      { IF o.panic THEN [s EXCEPT !.panicked = TRUE, !.steps = @ + 1]
        ELSE
          LET pushed == PushFront(s.parts, o.pos)
              hit    == eaten_by(pushed[1], a)
              after  == digest(s.belly + Cardinality(hit), pushed)
          IN  [parts    |-> after.parts,
               belly    |-> after.belly,
               despawn  |-> s.despawn \cup {e.id : e \in hit},
               eaten    |-> EventsSendN(s.eaten, Cardinality(hit)),
               wrapped  |-> s.wrapped \/ o.pos # MovExact(d, s.parts[1]),
               panicked |-> FALSE,
               steps    |-> s.steps + 1,
               log      |-> LastTwo(Append(s.log,
                              [heading     |-> d,
                               len_before  |-> Len(s.parts),
                               len_after   |-> Len(after.parts),
                               hits        |-> Cardinality(hit),
                               belly_after |-> after.belly]))]
        : o \in new_position(d, s.parts, s.wrapped) }

RECURSIVE Steps(_, _, _, _)
Steps(n, S, d, a) ==
    IF n = 0 THEN S ELSE Steps(n - 1, UNION {Step(s, d, a) : s \in S}, d, a)

\* --------------------------------------------------------- direction_update
KeyDirection(k) ==
    CASE k = "W" -> "Up" [] k = "A" -> "Left" [] k = "S" -> "Down" [] k = "D" -> "Right"

Opposite(d) ==
    CASE d = "Left" -> "Right" [] d = "Right" -> "Left"
      [] d = "Up" -> "Down" [] d = "Down" -> "Up"

\* direction_update with the usual snake rule: a request for the exact
\* reverse of the current heading is ignored.
DirectionAfter_NoReversal(d, just_pressed) ==
    LET d1 == IF "W" \in just_pressed /\ d # "Down" THEN "Up" ELSE d
        d2 == IF "A" \in just_pressed /\ d1 # "Right" THEN "Left" ELSE d1
        d3 == IF "S" \in just_pressed /\ d2 # "Up" THEN "Down" ELSE d2
    IN  IF "D" \in just_pressed /\ d3 # "Left" THEN "Right" ELSE d3

\* direction_update with the four `if` statements in the opposite order.
DirectionAfter_reverse_order(d, just_pressed) ==
    LET d1 == IF "D" \in just_pressed THEN "Right" ELSE d
        d2 == IF "S" \in just_pressed THEN "Down" ELSE d1
        d3 == IF "A" \in just_pressed THEN "Left" ELSE d2
    IN  IF "W" \in just_pressed THEN "Up" ELSE d3

\* The four `if keys.just_pressed(..)` statements, in source order.
DirectionAfter(d, just_pressed) ==
    LET d1 == IF "W" \in just_pressed THEN "Up" ELSE d
        d2 == IF "A" \in just_pressed THEN "Left" ELSE d1
        d3 == IF "S" \in just_pressed THEN "Down" ELSE d2
    IN  IF "D" \in just_pressed THEN "Right" ELSE d3

\* ------------------------------------------------------------------ startup
NoCall == [fn |-> "none"]

\* GameState::new and startup: the state when the first frame begins.
Startup ==
    /\ parts = <<Position(Width \div 2 + 1, Height \div 2)>>
    /\ direction = "Right"
    /\ belly = 0
    /\ apples = {[id |-> 1, pos |-> Position(Width \div 2 + 2, Height \div 2 + 1)]}
    /\ next_entity = 3
    /\ tick_timer = TimerNew
    /\ tick_events = EventsNew
    /\ tick_reader = 0
    /\ eaten_events = EventsNew
    /\ eaten_reader = 0
    /\ commands = CommandsEmpty
    /\ phase = "first"
    /\ frame_ran = {}
    /\ panicked = FALSE
    /\ wrapped = FALSE
    /\ step_log = <<>>
    /\ presses = 0
    /\ steps = 0

Init == Startup /\ call = NoCall

\* ------------------------------------------------------------------- frame
\* The First schedule: both event channels rotate their buffers.
First ==
    /\ phase = "first" /\ ~panicked
    /\ tick_events' = EventsUpdate(tick_events)
    /\ eaten_events' = EventsUpdate(eaten_events)
    /\ phase' = "update"
    /\ frame_ran' = {}
    /\ UNCHANGED <<parts, direction, belly, apples, next_entity, tick_timer,
                   tick_reader, eaten_reader, commands, panicked, wrapped,
                   step_log, presses, steps, call>>

CanRun(sys) == phase = "update" /\ ~panicked /\ sys \notin frame_ran

\* fn update: advance the timer by the frame time, send one TickUpdate when
\* the timer has finished.  Once MaxTicks signals have been sent only frame
\* times that complete no period are offered.
update(delta) ==
    /\ CanRun("update")
    /\ LET t == TimerTick(tick_timer, delta) IN
         /\ t.finished => tick_events.event_count < MaxTicks
         /\ tick_timer' = t
         /\ tick_events' = IF t.finished THEN EventsSend(tick_events) ELSE tick_events
    /\ frame_ran' = frame_ran \cup {"update"}
    /\ UNCHANGED <<parts, direction, belly, apples, next_entity, tick_reader,
                   eaten_events, eaten_reader, commands, phase, panicked,
                   wrapped, step_log, presses, steps, call>>

\* fn direction_update; just_pressed is the set of direction keys newly
\* pressed in this frame.
direction_update(just_pressed) ==
    /\ CanRun("direction_update")
    /\ just_pressed # {} => presses < MaxPresses
    /\ presses' = IF just_pressed # {} THEN presses + 1 ELSE presses
    /\ direction' = DirectionAfter(direction, just_pressed)
    /\ frame_ran' = frame_ran \cup {"direction_update"}
    /\ UNCHANGED <<parts, belly, apples, next_entity, tick_timer, tick_events,
                   tick_reader, eaten_events, eaten_reader, commands, phase,
                   panicked, wrapped, step_log, steps, call>>

\* fn snake_update: one step per unread TickUpdate.
snake_update ==
    /\ CanRun("snake_update")
    /\ LET n  == EventsUnread(tick_events, tick_reader)
           s0 == [parts |-> parts, belly |-> belly, despawn |-> commands.despawn,
                  eaten |-> eaten_events, wrapped |-> wrapped,
                  panicked |-> FALSE, steps |-> steps, log |-> step_log]
       IN \E s \in Steps(n, {s0}, direction, apples) :
            /\ parts' = s.parts
            /\ belly' = s.belly
            /\ commands' = [commands EXCEPT !.despawn = s.despawn]
            /\ eaten_events' = s.eaten
            /\ wrapped' = s.wrapped
            /\ panicked' = s.panicked
            /\ step_log' = s.log
            /\ steps' = s.steps
    /\ tick_reader' = tick_events.event_count
    /\ frame_ran' = frame_ran \cup {"snake_update"}
    /\ UNCHANGED <<direction, apples, next_entity, tick_timer, tick_events,
                   eaten_reader, phase, presses, call>>

\* fn on_edible_eaten: one draw of x and y, one spawn per unread EdibleEaten.
on_edible_eaten(x, y) ==
    /\ CanRun("on_edible_eaten")
    /\ LET n == EventsUnread(eaten_events, eaten_reader) IN
         /\ commands' = [commands EXCEPT !.spawn = @ \cup
                {[id |-> next_entity + i, pos |-> Position(x, y)] : i \in 0..(n - 1)}]
         /\ next_entity' = next_entity + n
    /\ eaten_reader' = eaten_events.event_count
    /\ frame_ran' = frame_ran \cup {"on_edible_eaten"}
    /\ UNCHANGED <<parts, direction, belly, apples, tick_timer, tick_events,
                   tick_reader, eaten_events, phase, panicked, wrapped,
                   step_log, presses, steps, call>>

\* The end of the Update schedule: the queued commands are applied.
apply_deferred ==
    /\ phase = "update" /\ ~panicked /\ frame_ran = Systems
    /\ apples' = CommandsApply(apples, commands)
    /\ commands' = CommandsEmpty
    /\ phase' = "post_update"
    /\ UNCHANGED <<parts, direction, belly, next_entity, tick_timer, tick_events,
                   tick_reader, eaten_events, eaten_reader, frame_ran, panicked,
                   wrapped, step_log, presses, steps, call>>

\* PostUpdate: draw_apple and draw_snake read the board; the frame ends.
draw ==
    /\ phase = "post_update" /\ ~panicked
    /\ phase' = "first"
    /\ UNCHANGED <<parts, direction, belly, apples, next_entity, tick_timer,
                   tick_events, tick_reader, eaten_events, eaten_reader,
                   commands, frame_ran, panicked, wrapped, step_log, presses, steps, call>>

Next ==
    \/ First
    \/ \E delta \in Deltas : update(delta)
    \/ \E just_pressed \in SUBSET KeyCodes : direction_update(just_pressed)
    \/ snake_update
    \/ \E x \in RngSamples, y \in RngSamples : on_edible_eaten(x, y)
    \/ apply_deferred
    \/ draw

Spec == Init /\ [][Next]_vars

\* ------------------------------------------------- Direction::mov on its own
\* Every heading applied to every cell of the board.
MovInit ==
    /\ Startup
    /\ call \in [fn : {"mov"}, self : Directions,
                 position : (0..(Width - 1)) \X (0..(Height - 1)),
                 ret : {[status |-> "pending", pos |-> <<0, 0>>]}]

MovCall ==
    /\ call.fn = "mov" /\ call.ret.status = "pending"
    /\ \E o \in mov(call.self, call.position, FALSE) :
         call' = [call EXCEPT !.ret =
                    IF o.panic THEN [status |-> "panic", pos |-> call.position]
                    ELSE [status |-> "returned", pos |-> o.pos]]
    /\ UNCHANGED <<parts, direction, belly, apples, next_entity, tick_timer,
                   tick_events, tick_reader, eaten_events, eaten_reader,
                   commands, phase, frame_ran, panicked, wrapped, step_log,
                   presses, steps>>

MovNext == MovCall

MovSpec == MovInit /\ [][MovNext]_vars

\* ------------------------------------------- snake_update on a food set
\* The worlds the apple query of snake_update can be run on: Edible entities
\* in creation order (ids), two of them on one cell.
FoodPool ==
    { [id |-> 1, pos |-> Position(7, 6)],
      [id |-> 3, pos |-> Position(7, 6)],
      [id |-> 4, pos |-> Position(6, 6)] }

\* One call of snake_update with one unread TickUpdate, on a one-cell snake
\* next to the food cells, any heading and any set of food from FoodPool.
StepInit ==
    /\ parts \in {<<Position(x, y)>> : x \in 6..8, y \in 5..7}
    /\ direction \in Directions
    /\ belly = 0
    /\ apples \in SUBSET FoodPool
    /\ next_entity = 5
    /\ tick_timer = TimerTick(TimerNew, Period)
    /\ tick_events = EventsSend(EventsNew)
    /\ tick_reader = 0
    /\ eaten_events = EventsNew
    /\ eaten_reader = 0
    /\ commands = CommandsEmpty
    /\ phase = "update"
    /\ frame_ran = {"update"}
    /\ panicked = FALSE
    /\ wrapped = FALSE
    /\ step_log = <<>>
    /\ presses = 0
    /\ steps = 0
    /\ call = NoCall

StepNext == snake_update

StepSpec == StepInit /\ [][StepNext]_vars

\* ------------------------------------------------------------ abbreviations
Ran(sys) == sys \in frame_ran' /\ sys \notin frame_ran
Logged == {step_log[i] : i \in DOMAIN step_log}
OneFoodStart == Position(7, 6)
\* The cell n moves in heading d away from p.
RECURSIVE MovN(_, _, _)
MovN(n, d, p) == IF n = 0 THEN p ELSE MovN(n - 1, d, MovWrapping(d, p))

Cells == {parts[i] : i \in DOMAIN parts}
Abs(n) == IF n < 0 THEN -n ELSE n
StartCell == Position(6, 5)
InBoard(p) == p[1] >= 0 /\ p[1] < 10 /\ p[2] >= 0 /\ p[2] < 10

\* The chain the specification expects after one step, and after n steps, of
\* the chain ps with heading d and food a: the new head in front, the previous
\* cells behind it in their order, the last one dropped unless the new head
\* lies on food.
ShiftedChain(ps, d, a) ==
    LET head == MovWrapping(d, ps[1])
    IN  IF \E e \in a : e.pos = head
        THEN <<head>> \o ps
        ELSE <<head>> \o SubSeq(ps, 1, Len(ps) - 1)
RECURSIVE ShiftedChainN(_, _, _, _)
ShiftedChainN(n, ps, d, a) ==
    IF n = 0 THEN ps ELSE ShiftedChainN(n - 1, ShiftedChain(ps, d, a), d, a)

\* Grid adjacency: the cells differ by exactly 1 in exactly one coordinate.
Adjacent(p, q) ==
    \/ (Abs(p[1] - q[1]) = 1 /\ p[2] = q[2])
    \/ (p[1] = q[1] /\ Abs(p[2] - q[2]) = 1)

\* The heading the specification gives for a set of newly pressed keys.
HeadingByPriority(d, just_pressed) ==
    IF "D" \in just_pressed THEN "Right"
    ELSE IF "S" \in just_pressed THEN "Down"
    ELSE IF "A" \in just_pressed THEN "Left"
    ELSE IF "W" \in just_pressed THEN "Up"
    ELSE d

AtEdgeFacingOut(d, p) == (d = "Left" /\ p[1] = 0) \/ (d = "Down" /\ p[2] = 0)

\* ------------------------------------------------------------------ claims

\* C1: a step whose new head lies on no active food cell leaves the chain as
\* long as it was before the step.
C1_NoFoodKeepsLength ==
    \A e \in Logged : e.hits = 0 => e.len_after = e.len_before

\* A chain of two or more cells has taken a step without food.
C1_Witness ==
    \E e \in Logged : e.hits = 0 /\ e.len_before >= 2

\* C2: a step that consumes food followed by a step that consumes none leaves
\* the chain exactly one cell longer than it was before the first of the two.
C2_FoodTickThenPlainTick ==
    (Len(step_log) = 2 /\ step_log[1].hits > 0 /\ step_log[2].hits = 0)
        => /\ step_log[2].len_before = step_log[1].len_after
           /\ step_log[2].len_after = step_log[1].len_before + 1

\* The last two steps were a step with food and then a step without.
C2_Witness ==
    Len(step_log) = 2 /\ step_log[1].hits > 0 /\ step_log[2].hits = 0

\* C3 as stated: a step that consumes food ends with belly = 1, left for the
\* next tick to spend.
C3_CreditOutlivesStep ==
    \A e \in Logged : e.hits > 0 => e.belly_after = 1

\* C3 amended: a step that consumes food raises belly to 1 and spends it in
\* that same step in place of removing the tail, so the step ends with
\* belly = 0 and the chain one cell longer; belly is 0 whenever no step is
\* running, and a following step without food removes the tail.
C3_CreditSpentInStep ==
    /\ belly = 0
    /\ \A e \in Logged :
         /\ e.belly_after = 0
         /\ e.hits > 0 => e.len_after = e.len_before + 1
    /\ (Len(step_log) = 2 /\ step_log[1].hits > 0 /\ step_log[2].hits = 0)
         => step_log[2].len_after = step_log[2].len_before

\* A step has consumed food and the tick after it has been stepped.
C3_Witness ==
    Len(step_log) = 2 /\ step_log[1].hits = 1 /\ step_log[1].belly_after = 0
    /\ step_log[2].hits = 0 /\ belly = 0

\* C4: the board holds exactly one food item in every state.
C4_OneFood == Cardinality(apples) = 1

\* C5: a run of snake_update moves the head by the heading held when it
\* runs, once per tick signal it reads, and leaves the heading alone; a
\* transition that changes the heading leaves the chain, the credit and the
\* log of steps as they were.
C5_HeadingAtTick ==
    [][ /\ (Ran("snake_update") /\ ~panicked')
            => /\ parts'[1] = MovN(EventsUnread(tick_events, tick_reader),
                                   direction, parts[1])
               /\ direction' = direction
        /\ direction' # direction
            => parts' = parts /\ belly' = belly /\ step_log' = step_log
      ]_vars

\* Two consecutive steps of a chain of two cells used different headings: the
\* heading was changed between them.
C5_Witness ==
    /\ Len(step_log) = 2 /\ step_log[1].heading # step_log[2].heading
    /\ step_log[2].len_before = 2

\* C6: mov returns the cell displaced by one in the heading, for every cell
\* of the board: Right (x+1, y), Left (x-1, y), Up (x, y+1), Down (x, y-1).
C6_MovTable ==
    (call.fn = "mov" /\ call.ret.status # "pending")
        => /\ call.ret.status = "returned"
           /\ call.ret.pos = MovExact(call.self, call.position)

\* C7: the start is chain [(6,5)], heading Right, credit 0, one food item at
\* (7,6); a first step with heading Right gives chain [(7,5)] and leaves the
\* food alone; a second step with heading Up gives chain [(7,6),(7,5)], has
\* consumed the food, and the board holds one food item once that frame's
\* updates are done.
C7_Scenario ==
    /\ (tick_reader = 0 /\ step_log = <<>>)
         => /\ parts = <<Position(6, 5)>> /\ belly = 0
            /\ apples = {[id |-> 1, pos |-> OneFoodStart]}
    /\ presses = 0 => direction = "Right"
    /\ (tick_reader = 1 /\ Len(step_log) = 1 /\ step_log[1].heading = "Right")
         => /\ parts = <<Position(7, 5)>>
            /\ apples = {[id |-> 1, pos |-> OneFoodStart]}
    /\ (tick_reader = 2 /\ Len(step_log) = 2 /\ step_log[1].heading = "Right"
        /\ step_log[2].heading = "Up")
         => /\ parts = <<Position(7, 6), Position(7, 5)>>
            /\ step_log[2].hits = 1
            /\ phase # "update" => Cardinality(apples) = 1

\* C8: a single newly pressed direction key sets the heading to that key's
\* direction whatever the current heading is, its reverse included; a first
\* step taken with heading Left, the reverse of the starting heading, does
\* not fail and moves the one-cell chain from (6,5) to (5,5); every step
\* keeps the length rule (same length without food, one more with food).
C8_ReversalAllowed ==
    /\ (CanRun("direction_update") /\ presses < MaxPresses)
         => \A k \in KeyCodes :
              ENABLED (direction_update({k}) /\ direction' = KeyDirection(k))
    /\ tick_reader <= 1 => ~panicked
    /\ (tick_reader = 1 /\ Len(step_log) = 1 /\ step_log[1].heading = "Left")
         => parts = <<Position(5, 5)>>
    /\ \A e \in Logged : e.len_after = e.len_before + (IF e.hits > 0 THEN 1 ELSE 0)

\* The heading was reversed before the first tick and the first step has
\* been taken with it.
C8_Witness ==
    /\ tick_reader = 1 /\ Len(step_log) = 1 /\ step_log[1].heading = "Left"
    /\ direction = "Left" /\ ~panicked /\ parts = <<Position(5, 5)>>

\* C9: in every frame update and direction_update run before snake_update,
\* and snake_update before on_edible_eaten (update and direction_update
\* touch disjoint state, so their mutual order cannot be observed); so when a
\* frame's updates are done no tick signal is left unstepped and no
\* consumption is left without its new food.
C9_FixedOrder ==
    /\ "snake_update" \in frame_ran
         => {"update", "direction_update"} \subseteq frame_ran
    /\ "on_edible_eaten" \in frame_ran => "snake_update" \in frame_ran
    /\ phase = "post_update"
         => /\ EventsUnread(tick_events, tick_reader) = 0
            /\ EventsUnread(eaten_events, eaten_reader) = 0

\* C10: a run of update sends as many tick signals as periods were completed
\* by the frame time it adds.
C10_TickPerPeriod ==
    [][ Ran("update")
          => tick_events'.event_count - tick_events.event_count
               = tick_timer'.times_finished_this_tick ]_vars

\* C11: every tick signal is stepped exactly once, whatever the order of
\* update and snake_update in a frame: the loop iterations begun never exceed
\* the signals read, in a running process they equal them, the signals read
\* never exceed the signals sent, and once snake_update has run in a frame
\* the only signal that can still wait is the one sent later in that frame.
C11_EachTickSteppedOnce ==
    /\ steps <= tick_reader
    /\ tick_reader <= tick_events.event_count
    /\ ~panicked => steps = tick_reader
    /\ ("snake_update" \in frame_ran /\ ~panicked)
         => /\ tick_reader >= tick_events.b_start
            /\ EventsUnread(tick_events, tick_reader)
                 = tick_events.event_count - tick_reader

\* snake_update ran before update in a frame whose timer finished: the
\* frame ends with one signal waiting, after earlier signals were stepped.
C11_Witness ==
    /\ phase = "post_update" /\ steps >= 1 /\ ~panicked
    /\ EventsUnread(tick_events, tick_reader) = 1

\* C12 as stated: every cell of the chain lies on the board, 0 <= x < width
\* and 0 <= y < height.
C12_ChainOnBoard ==
    \A p \in Cells : p[1] >= 0 /\ p[1] < Width /\ p[2] >= 0 /\ p[2] < Height

\* C12 amended: every coordinate of the chain is a usize value; the chain is
\* on the board until three steps have been begun; and while no coordinate
\* has wrapped, every cell lies within as many cells of the start (6,5) as
\* steps have been begun.  Nothing keeps the chain on the board.
C12_ChainNearStart ==
    \A p \in Cells :
        /\ IsUsize(p[1]) /\ IsUsize(p[2])
        /\ steps <= 3 => (p[1] < Width /\ p[2] < Height)
        /\ ~wrapped => Abs(p[1] - StartCell[1]) + Abs(p[2] - StartCell[2]) <= steps

\* The head has left the board over its right edge without any wrap.
C12_Witness ==
    /\ parts[1][1] >= Width /\ ~wrapped /\ ~panicked /\ steps >= 4

\* C13: every food item, on the board or queued to be spawned, lies on a
\* cell with 0 <= x < 10 and 0 <= y < 10; and when on_edible_eaten can run,
\* it can draw every sampled cell, wherever the chain is.
C13_FoodOnBoard ==
    /\ \A a \in apples \cup commands.spawn : InBoard(a.pos)
    /\ CanRun("on_edible_eaten")
         => \A x \in RngSamples, y \in RngSamples : ENABLED on_edible_eaten(x, y)

\* A respawned food item lies on a cell of the chain.
C13_Witness ==
    \E a \in apples : a.id # 1 /\ a.pos \in Cells /\ InBoard(a.pos)

\* C14: a tick that arrives with heading Left at head.x = 0, or heading Down
\* at head.y = 0, does not yield a cell next to the head: the run of
\* snake_update panics, or the coordinate wraps and the head ends at
\* 2^w - n after the n steps of the run; and a panic happens nowhere else
\* (the chain a panicking run leaves behind has its head at that edge).
C14_UnderflowAtEdge ==
    [][ /\ (Ran("snake_update") /\ EventsUnread(tick_events, tick_reader) >= 1
             /\ AtEdgeFacingOut(direction, parts[1]))
            => \/ panicked'
               \/ /\ wrapped'
                  /\ LET n == EventsUnread(tick_events, tick_reader)
                         c == IF direction = "Left" THEN 1 ELSE 2
                     IN  parts'[1][c] = UsizeModulus - n
        /\ (panicked' /\ ~panicked)
            => Ran("snake_update") /\ AtEdgeFacingOut(direction, parts'[1])
      ]_vars

\* The head stood at y = 0 with heading Down, the tick was stepped and the
\* y coordinate wrapped to 2^w - 1.
C14_Witness ==
    /\ wrapped /\ ~panicked /\ direction = "Down"
    /\ parts[1][2] = UsizeModulus - 1

\* ----------------------------------------------------------------------- C15
\* C15: after every step the chain is the new head followed by the cells of
\* the previous chain in their previous order, the last cell of the previous
\* chain dropped exactly when the step consumed no food.  A run of
\* snake_update that does not fail leaves the chain that n such steps give,
\* n being the tick signals it read, and nothing else changes the chain.
C15_ChainShifts ==
    [][ /\ (Ran("snake_update") /\ ~panicked')
            => parts' = ShiftedChainN(EventsUnread(tick_events, tick_reader),
                                      parts, direction, apples)
        /\ ~Ran("snake_update") => parts' = parts
      ]_vars

\* A step that consumed food and then a plain step have both acted on a chain
\* of two cells or more.
C15_Witness ==
    /\ Len(step_log) = 2 /\ ~panicked
    /\ step_log[1].hits = 1 /\ step_log[2].hits = 0
    /\ Len(parts) >= 2 /\ parts[2] = MovWrapping(Opposite(step_log[2].heading), parts[1])

C17_LengthCountsFood ==
    /\ Len(parts) = 1 + eaten_events.event_count
    /\ parts # <<>>

\* Two food items have been consumed and steps have been taken since.
C17_Witness ==
    /\ eaten_events.event_count = 2 /\ Len(parts) = 3
    /\ Len(step_log) = 2 /\ step_log[2].hits = 0 /\ ~panicked

\* ----------------------------------------------------------------------- C18
\* C18: in every reachable state in which no coordinate has underflowed,
\* every two consecutive cells of the chain are grid-adjacent, after any
\* sequence of ticks, heading changes (reversals included) and consumptions.
C18_ChainConnected ==
    ~wrapped => \A i \in 1..(Len(parts) - 1) : Adjacent(parts[i], parts[i + 1])

\* A chain of three cells with a bend in it, no coordinate underflowed.
C18_Witness ==
    /\ ~wrapped /\ ~panicked /\ Len(parts) = 3
    /\ parts[1][1] # parts[3][1] /\ parts[1][2] # parts[3][2]

\* ----------------------------------------------------------------------- C19
\* C19: when several direction keys are newly pressed in the same frame the
\* heading is decided by a fixed priority: Right (D) if D is among them,
\* otherwise Down (S), otherwise Left (A), otherwise Up (W); with no key newly
\* pressed the heading is unchanged; and direction_update never changes the
\* chain, the growth credit or the food set.  Stated for every set of keys
\* direction_update can be run with, in every state in which it can run.
C19_KeyPriority ==
    CanRun("direction_update")
      => \A ks \in SUBSET KeyCodes :
           (ks = {} \/ presses < MaxPresses)
             => /\ ENABLED (direction_update(ks)
                             /\ direction' = HeadingByPriority(direction, ks))
                /\ ~ENABLED (direction_update(ks)
                              /\ \/ direction' # HeadingByPriority(direction, ks)
                                 \/ parts' # parts
                                 \/ belly' # belly
                                 \/ apples' # apples)

\* direction_update has run on a grown chain heading Up and left the
\* heading Down: S was pressed, alone or together with A or W, and not D.
C19_Witness ==
    /\ "direction_update" \in frame_ran /\ "snake_update" \notin frame_ran
    /\ presses = MaxPresses /\ direction = "Down"
    /\ step_log # <<>> /\ step_log[Len(step_log)].heading = "Up"
    /\ Len(parts) = 2 /\ ~panicked

====
